---- MODULE Spec2Model ----
(***************************************************************************)
(* A model of the Lake County query layer: the vocabulary cache            *)
(* (fetch_lake_county_domains), the term resolver (_resolve_value), the    *)
(* category predicates (_project_category_where) and the project query     *)
(* (query_lake_county_projects) with the tool that calls it.               *)
(*                                                                         *)
(* Python strings are sequences of one-character strings, so that strip,   *)
(* lower, startswith, "in" and sorted are computed and not assumed.        *)
(* Python's None is the one-element sequence None, which is no string.     *)
(***************************************************************************)
EXTENDS Integers, Sequences, FiniteSets, TLC

VARIABLES
    \* ---- vocabulary cache (src/api/lake_county_service.py:32-87)
    _domains_cache,      \* NoDict or a mapping field -> sorted list of strings
    _domains_cache_ts,   \* time.monotonic() of the last install
    now,                 \* the monotonic clock
    pc,                  \* per caller: "idle" or "fetching" (inside the gather)
    gathered,            \* per caller, per field: Pending or what _fetch_domain returned
    round,               \* per caller: the number of its refresh round (history)
    rounds,              \* refresh rounds started so far (history)
    cacheRound,          \* per field: the round that produced the cached value (history)
    cacheFailed,         \* per field: the cached value comes from a failed fetch (history)
    sent,                \* per field: remote distinct-value queries issued so far
    lastRet,             \* the value most recently returned by fetch_lake_county_domains
    \* ---- term resolver (src/agent/tools/list_lake_county_projects.py:29-40, 92-110)
    rv,                  \* inputs and result of one resolution
    \* ---- category predicates (src/api/lake_county_service.py:95-112)
    cat,                 \* inputs and result of one category evaluation
    \* ---- project query (src/api/lake_county_service.py:115-237)
    q                    \* inputs, position and result of one query

cacheVars == <<_domains_cache, _domains_cache_ts, now, pc, gathered, round, rounds,
               cacheRound, cacheFailed, sent, lastRet>>
vars == <<cacheVars, rv, cat, q>>
\* what the actions of the cache leave alone
notCache == <<rv, cat, q>>

None == <<"None">>
\* Python's None where a dict is expected
NoDict == [none |-> TRUE]

\* ------------------------------------------------------------------ strings

UpperCase == <<"A","B","C","D","E","F","G","H","I","J","K","L","M",
               "N","O","P","Q","R","S","T","U","V","W","X","Y","Z">>
LowerCase == <<"a","b","c","d","e","f","g","h","i","j","k","l","m",
               "n","o","p","q","r","s","t","u","v","w","x","y","z">>
\* the characters of the model in ascending code point order
Chars == <<" ", "'">> \o UpperCase \o <<"_">> \o LowerCase

Ord(ch) == CHOOSE i \in 1..Len(Chars) : Chars[i] = ch

LowerChar(ch) ==
    IF \E i \in 1..Len(UpperCase) : UpperCase[i] = ch
    THEN LowerCase[CHOOSE i \in 1..Len(UpperCase) : UpperCase[i] = ch]
    ELSE ch

lower(s) == [i \in 1..Len(s) |-> LowerChar(s[i])]

strip(s) ==
    LET idx == {i \in 1..Len(s) : s[i] # " "}
    IN  IF idx = {} THEN <<>>
        ELSE SubSeq(s, CHOOSE i \in idx : \A j \in idx : i <= j,
                       CHOOSE i \in idx : \A j \in idx : i >= j)

startswith(d, p) == Len(p) <= Len(d) /\ SubSeq(d, 1, Len(p)) = p

\* Python's  p in d  for strings
contains(p, d) ==
    \E i \in 0..(Len(d) - Len(p)) : SubSeq(d, i + 1, i + Len(p)) = p

\* Python's str < str: lexicographic by code point
StrLess(a, b) ==
    \E i \in 1..(Len(a) + 1) :
        /\ \A j \in 1..(i - 1) : j <= Len(b) /\ a[j] = b[j]
        /\ i <= Len(b)
        /\ (i > Len(a) \/ Ord(a[i]) < Ord(b[i]))

RECURSIVE sorted(_)
\* sorted(set(values)) for a set of strings
sorted(S) ==
    IF S = {} THEN <<>>
    ELSE LET m == CHOOSE x \in S : \A y \in S \ {x} : StrLess(x, y)
         IN  <<m>> \o sorted(S \ {m})

\* Python truthiness of an optional string
Truthy(s) == s # None /\ s # <<>>

\* ------------------------------------------------------- vocabulary cache

DOMAIN_FIELDS == <<"status", "ProjectStatus", "jurisdiction">>
Fields == {DOMAIN_FIELDS[i] : i \in 1..Len(DOMAIN_FIELDS)}

_DOMAINS_CACHE_TTL == 600

Callers == {"c1", "c2"}
MaxRounds == 2
MaxTime == 900
TickStep == _DOMAINS_CACHE_TTL \div 2

Pending == [state |-> "pending"]

\* The attribute values the representative-points layer may hold in a field:
\* unsorted, repeated, padded, blank and null values.
RemoteFeatures(field) ==
    CASE field = "status"        -> << <<"b">>, None, <<" ","a"," ">>, <<"a">>, <<" "," ">>, <<"B">> >>
      [] field = "ProjectStatus" -> << <<"a","b">>, <<"a">>, <<"a","b">> >>
      [] field = "jurisdiction"  -> << <<"b"," ","a">>, <<>>, <<"A">> >>

\* What client.get + raise_for_status + resp.json() can produce for one field
Responses(field) ==
    { [kind |-> "exception",    has_error |-> FALSE, features |-> <<>>],
      [kind |-> "http_status",  has_error |-> FALSE, features |-> <<>>],
      [kind |-> "body",         has_error |-> TRUE,  features |-> RemoteFeatures(field)],
      [kind |-> "body",         has_error |-> FALSE, features |-> RemoteFeatures(field)] }

\* the response is one of the failures of lines 63-71
FetchFailed(resp) == resp.kind # "body" \/ resp.has_error

\* a variant that returns the stripped values in response order, repeats included
_fetch_domain_unsorted(field, resp) ==
    IF resp.kind # "body" THEN <<>>
    ELSE IF resp.has_error THEN <<>>
    ELSE LET vals == {i \in 1..Len(resp.features) :
                          /\ resp.features[i] # None
                          /\ strip(resp.features[i]) # <<>>}
         IN  [i \in 1..Cardinality(vals) |->
                 strip(resp.features[CHOOSE k \in vals :
                          Cardinality({j \in vals : j < k}) = i - 1])]

\* lines 54-79: the values _fetch_domain returns for a field
_fetch_domain(field, resp) ==
    IF resp.kind # "body" THEN <<>>
    ELSE IF resp.has_error THEN <<>>
    ELSE sorted({strip(resp.features[i]) :
                   i \in {k \in 1..Len(resp.features) :
                            /\ resp.features[k] # None
                            /\ strip(resp.features[k]) # <<>>}})

\* a variant that still serves a snapshot whose age is exactly the TTL
CacheFreshInclusive ==
    _domains_cache # NoDict /\ (now - _domains_cache_ts) <= _DOMAINS_CACHE_TTL

\* line 44: a snapshot exists and is younger than the TTL
CacheFresh ==
    _domains_cache # NoDict /\ (now - _domains_cache_ts) < _DOMAINS_CACHE_TTL

\* lines 43-45: a call that finds a fresh snapshot returns it
CallHit(c) ==
    /\ pc[c] = "idle"
    /\ CacheFresh
    /\ lastRet' = [hit |-> TRUE, value |-> _domains_cache, rnd |-> cacheRound,
                   failed |-> cacheFailed]
    /\ UNCHANGED <<notCache, _domains_cache, _domains_cache_ts, now, pc, gathered, round,
                   rounds, cacheRound, cacheFailed, sent>>

\* lines 47-81: a call that finds no fresh snapshot issues one query per field
CallMiss(c) ==
    /\ pc[c] = "idle"
    /\ ~CacheFresh
    /\ rounds < MaxRounds
    /\ rounds' = rounds + 1
    /\ round' = [round EXCEPT ![c] = rounds + 1]
    /\ pc' = [pc EXCEPT ![c] = "fetching"]
    /\ gathered' = [gathered EXCEPT ![c] = [f \in Fields |-> Pending]]
    /\ sent' = [f \in Fields |-> sent[f] + 1]
    /\ UNCHANGED <<notCache, _domains_cache, _domains_cache_ts, now, cacheRound, cacheFailed,
                   lastRet>>

\* a variant that writes each field into the shared mapping as its fetch completes
FetchDomainDoneInPlace(c, f, resp) ==
    /\ pc[c] = "fetching"
    /\ gathered[c][f] = Pending
    /\ gathered' = [gathered EXCEPT ![c][f] =
                       [state |-> "done", values |-> _fetch_domain(f, resp),
                        failed |-> FetchFailed(resp)]]
    /\ _domains_cache' = [g \in (IF _domains_cache = NoDict THEN {} ELSE DOMAIN _domains_cache)
                                  \cup {f} |->
                             IF g = f THEN _fetch_domain(f, resp) ELSE _domains_cache[g]]
    /\ cacheRound' = [cacheRound EXCEPT ![f] = round[c]]
    /\ cacheFailed' = [cacheFailed EXCEPT ![f] = FetchFailed(resp)]
    /\ UNCHANGED <<notCache, _domains_cache_ts, now, pc, round, rounds, sent, lastRet>>

\* lines 54-79: one _fetch_domain coroutine of the gather completes
FetchDomainDone(c, f, resp) ==
    /\ pc[c] = "fetching"
    /\ gathered[c][f] = Pending
    /\ gathered' = [gathered EXCEPT ![c][f] =
                       [state |-> "done", values |-> _fetch_domain(f, resp),
                        failed |-> FetchFailed(resp)]]
    /\ UNCHANGED <<notCache, _domains_cache, _domains_cache_ts, now, pc, round, rounds,
                   cacheRound, cacheFailed, sent, lastRet>>

\* lines 81-83: the mapping built from the gather's results
GatherResult(c) == [f \in Fields |-> gathered[c][f].values]

\* a variant that keeps the old timestamp when a field of the round failed
FinishRefreshFreshOnly(c) ==
    /\ pc[c] = "fetching"
    /\ \A f \in Fields : gathered[c][f] # Pending
    /\ _domains_cache' = GatherResult(c)
    /\ _domains_cache_ts' = IF \E f \in Fields : gathered[c][f].failed
                            THEN _domains_cache_ts ELSE now
    /\ cacheRound' = [f \in Fields |-> round[c]]
    /\ cacheFailed' = [f \in Fields |-> gathered[c][f].failed]
    /\ lastRet' = [hit |-> FALSE, value |-> GatherResult(c),
                   rnd |-> [f \in Fields |-> round[c]],
                   failed |-> [f \in Fields |-> gathered[c][f].failed]]
    /\ pc' = [pc EXCEPT ![c] = "idle"]
    /\ gathered' = [gathered EXCEPT ![c] = [f \in Fields |-> Pending]]
    /\ round' = [round EXCEPT ![c] = 0]
    /\ UNCHANGED <<notCache, now, rounds, sent>>

\* lines 81-87: the gather is complete; install the snapshot and return it
FinishRefresh(c) ==
    /\ pc[c] = "fetching"
    /\ \A f \in Fields : gathered[c][f] # Pending
    /\ _domains_cache' = GatherResult(c)
    /\ _domains_cache_ts' = now
    /\ cacheRound' = [f \in Fields |-> round[c]]
    /\ cacheFailed' = [f \in Fields |-> gathered[c][f].failed]
    /\ lastRet' = [hit |-> FALSE, value |-> GatherResult(c),
                   rnd |-> [f \in Fields |-> round[c]],
                   failed |-> [f \in Fields |-> gathered[c][f].failed]]
    /\ pc' = [pc EXCEPT ![c] = "idle"]
    /\ gathered' = [gathered EXCEPT ![c] = [f \in Fields |-> Pending]]
    /\ round' = [round EXCEPT ![c] = 0]
    /\ UNCHANGED <<notCache, now, rounds, sent>>

\* time.monotonic() advances
Tick ==
    /\ now + TickStep <= MaxTime
    /\ now' = now + TickStep
    /\ UNCHANGED <<notCache, _domains_cache, _domains_cache_ts, pc, gathered, round, rounds,
                   cacheRound, cacheFailed, sent, lastRet>>

\* lines 32-33: the module as imported, no call made yet
ColdCache ==
    /\ _domains_cache = NoDict
    /\ _domains_cache_ts = 0
    /\ now = 0
    /\ pc = [c \in Callers |-> "idle"]
    /\ gathered = [c \in Callers |-> [f \in Fields |-> Pending]]
    /\ round = [c \in Callers |-> 0]
    /\ rounds = 0
    /\ cacheRound = [f \in Fields |-> 0]
    /\ cacheFailed = [f \in Fields |-> FALSE]
    /\ sent = [f \in Fields |-> 0]
    /\ lastRet = [hit |-> FALSE, value |-> NoDict, rnd |-> [f \in Fields |-> 0],
                  failed |-> [f \in Fields |-> FALSE]]

CacheInit ==
    /\ ColdCache
    /\ rv = None /\ cat = None /\ q = None

CacheNext ==
    \/ \E c \in Callers : CallHit(c)
    \/ \E c \in Callers : CallMiss(c)
    \/ \E c \in Callers, f \in Fields : \E resp \in Responses(f) : FetchDomainDone(c, f, resp)
    \/ \E c \in Callers : FinishRefresh(c)
    \/ Tick

SpecCache == CacheInit /\ [][CacheNext]_vars

\* ---------------------------------------------------------- term resolver

\* the letters the vocabulary entries and the user terms are written with
Letters == {"a", "A", "b"}
\* the strings a vocabulary may hold: stripped and not blank (lines 77-78)
Words == {<<x>> : x \in Letters} \cup {<<x, y>> : x, y \in Letters}
MaxVocab == 2

\* the lists _fetch_domain can return: sorted(set(...)) of stripped non-blank strings
Vocabularies == {sorted(S) : S \in {T \in SUBSET Words : Cardinality(T) <= MaxVocab}}

\* what a caller may pass as the term: nothing, blank, a word, a padded word
UserValues ==
    {None, <<>>, <<" ">>} \cup Words \cup {<<" ">> \o <<x>> \o <<" ">> : x \in Letters}

Elems(seq) == {seq[i] : i \in 1..Len(seq)}

\* the first element of a list that satisfies a test, as a for loop finds it
FirstIndex(S) == CHOOSE i \in S : \A j \in S : i <= j

\* a variant without the exact-match loop of lines 34-36
_resolve_value_loose(user_value, domain_values) ==
    IF ~Truthy(user_value) \/ domain_values = <<>> THEN None
    ELSE LET uv == lower(strip(user_value))
             loose == {i \in 1..Len(domain_values) :
                          \/ startswith(lower(domain_values[i]), uv)
                          \/ contains(uv, lower(domain_values[i]))}
         IN  IF loose # {} THEN domain_values[FirstIndex(loose)] ELSE None

\* list_lake_county_projects.py:29-40: exact, then startswith or contains, else None
_resolve_value(user_value, domain_values) ==
    IF ~Truthy(user_value) \/ domain_values = <<>> THEN None
    ELSE LET uv == lower(strip(user_value))
             exact == {i \in 1..Len(domain_values) : lower(domain_values[i]) = uv}
             loose == {i \in 1..Len(domain_values) :
                          \/ startswith(lower(domain_values[i]), uv)
                          \/ contains(uv, lower(domain_values[i]))}
         IN  IF exact # {} THEN domain_values[FirstIndex(exact)]
             ELSE IF loose # {} THEN domain_values[FirstIndex(loose)]
             ELSE None

\* what the actions of the resolver leave alone
notResolve == <<cacheVars, cat, q>>

ResolveInit ==
    /\ \E uv \in UserValues, dv \in Vocabularies :
          rv = [stage |-> "input", user_value |-> uv, domain_values |-> dv, result |-> None]
    /\ ColdCache
    /\ cat = None /\ q = None

\* one call of _resolve_value
Resolve ==
    /\ rv.stage = "input"
    /\ rv' = [rv EXCEPT !.stage = "done",
                        !.result = _resolve_value(rv.user_value, rv.domain_values)]
    /\ UNCHANGED notResolve

SpecResolve == ResolveInit /\ [][Resolve]_vars

\* ----------------------------------------------------- category predicates

\* lake_county_config.py:98-100
PROJECT_CATEGORY_PROJECTS == <<"p","r","o","j","e","c","t","s">>
PROJECT_CATEGORY_STUDIES == <<"s","t","u","d","i","e","s">>
PROJECT_CATEGORY_FLOOD_AUDITS == <<"f","l","o","o","d","_","a","u","d","i","t","s">>
CategoryNames ==
    {PROJECT_CATEGORY_PROJECTS, PROJECT_CATEGORY_STUDIES, PROJECT_CATEGORY_FLOOD_AUDITS}

\* A where-clause is a tree of conditions; NoWhere is Python's None for it.
NoWhere == [op |-> "none"]
IsNull(field) == [op |-> "IS NULL", field |-> field]
SqlEq(field, value) == [op |-> "=", field |-> field, value |-> value]
SqlNe(field, value) == [op |-> "<>", field |-> field, value |-> value]
SqlAnd(l, r) == [op |-> "AND", left |-> l, right |-> r]
SqlOr(l, r) == [op |-> "OR", left |-> l, right |-> r]

\* a column value of a record: SQL NULL or a value
SqlNull == [null |-> TRUE, v |-> "NULL"]
SqlVal(x) == [null |-> FALSE, v |-> x]

\* SQL's three-valued logic: "T", "F" and "U" (unknown)
And3(a, b) ==
    IF a = "F" \/ b = "F" THEN "F" ELSE IF a = "T" /\ b = "T" THEN "T" ELSE "U"
Or3(a, b) ==
    IF a = "T" \/ b = "T" THEN "T" ELSE IF a = "F" /\ b = "F" THEN "F" ELSE "U"

RECURSIVE Eval3(_, _)
\* the truth value the feature service gives a where-clause on a record
Eval3(e, rec) ==
    CASE e.op = "IS NULL" -> IF rec[e.field].null THEN "T" ELSE "F"
      [] e.op = "="       -> IF rec[e.field].null THEN "U"
                             ELSE IF rec[e.field].v = e.value THEN "T" ELSE "F"
      [] e.op = "<>"      -> IF rec[e.field].null THEN "U"
                             ELSE IF rec[e.field].v # e.value THEN "T" ELSE "F"
      [] e.op = "AND"     -> And3(Eval3(e.left, rec), Eval3(e.right, rec))
      [] e.op = "OR"      -> Or3(Eval3(e.left, rec), Eval3(e.right, rec))

\* a query returns the records on which its where-clause is true
Selects(where, rec) == where # NoWhere /\ Eval3(where, rec) = "T"

\* a variant whose 'projects' clause lacks the IS NULL alternatives
_project_category_where_no_null(category) ==
    IF ~Truthy(category) THEN NoWhere
    ELSE LET c == lower(strip(category))
         IN  IF c = PROJECT_CATEGORY_PROJECTS
             THEN SqlAnd(SqlNe("projectsubtype", "Flood Audit"), SqlEq("is_study", "0"))
             ELSE IF c = PROJECT_CATEGORY_STUDIES THEN SqlEq("is_study", "1")
             ELSE IF c = PROJECT_CATEGORY_FLOOD_AUDITS
             THEN SqlEq("projectsubtype", "Flood Audit")
             ELSE NoWhere

\* lake_county_service.py:95-112
_project_category_where(category) ==
    IF ~Truthy(category) THEN NoWhere
    ELSE LET c == lower(strip(category))
         IN  IF c = PROJECT_CATEGORY_PROJECTS
             THEN SqlAnd(SqlOr(IsNull("projectsubtype"),
                               SqlNe("projectsubtype", "Flood Audit")),
                         SqlOr(IsNull("is_study"), SqlEq("is_study", "0")))
             ELSE IF c = PROJECT_CATEGORY_STUDIES THEN SqlEq("is_study", "1")
             ELSE IF c = PROJECT_CATEGORY_FLOOD_AUDITS
             THEN SqlEq("projectsubtype", "Flood Audit")
             ELSE NoWhere

\* the category arguments a caller may pass
CategoryArgs ==
    {None, <<>>, PROJECT_CATEGORY_PROJECTS, PROJECT_CATEGORY_STUDIES,
     PROJECT_CATEGORY_FLOOD_AUDITS,
     <<" ","P","r","o","j","e","c","t","s"," ">>,
     <<"S","T","U","D","I","E","S">>,
     <<"f","l","o","o","d"," ","a","u","d","i","t">>}

\* the records of the primary layer, by the two columns the clauses read
\* (is_study is a small integer, written here as its decimal text)
Subtypes == {SqlNull, SqlVal("Flood Audit"), SqlVal("Study"), SqlVal("Capital")}
StudyFlags == {SqlNull, SqlVal("0"), SqlVal("1"), SqlVal("2")}
Records == [projectsubtype : Subtypes, is_study : StudyFlags]

\* what the actions of the category evaluation leave alone
notCategory == <<cacheVars, rv, q>>

CategoryInit ==
    /\ \E c \in CategoryArgs, r \in Records :
          cat = [stage |-> "input", category |-> c, record |-> r,
                 where |-> NoWhere, selected |-> FALSE, selected_by |-> {}]
    /\ ColdCache
    /\ rv = None /\ q = None

\* the clause of the given category, and of each of the three categories, is
\* built and evaluated on the record
EvalCategory ==
    /\ cat.stage = "input"
    /\ cat' = [cat EXCEPT
                 !.stage = "done",
                 !.where = _project_category_where(cat.category),
                 !.selected = Selects(_project_category_where(cat.category), cat.record),
                 !.selected_by = {k \in CategoryNames :
                                     Selects(_project_category_where(k), cat.record)}]
    /\ UNCHANGED notCategory

SpecCategory == CategoryInit /\ [][EvalCategory]_vars

\* ------------------------------------------------------------ project query

\* lake_county_service.py:27, 90, 92
MAX_LIST_PROJECTS == 50
MAX_PROJECTS_SEMANTIC_SEARCH == 200
MAX_PROJECTS_BY_CATEGORY == 1000

\* lake_county_config.py:60
LAKE_COUNTY_SEARCH_LAYER_ID == "project_representative_points"

RECURSIVE SqlEscape(_)
\* .replace("'", "''")
SqlEscape(s) ==
    IF s = <<>> THEN <<>>
    ELSE (IF Head(s) = "'" THEN <<"'", "'">> ELSE <<Head(s)>>) \o SqlEscape(Tail(s))

\* str(x).strip() is not empty, for an optional string
NonBlank(s) == Truthy(s) /\ strip(s) # <<>>

\* Python's None where a list is expected, and a list
NoList == [is_none |-> TRUE, items |-> <<>>]
List(items) == [is_none |-> FALSE, items |-> items]

\* [f(x) for x in items if keep(x)], by the indexes kept
Kept(items) == {k \in 1..Len(items) : NonBlank(items[k])}
NthKept(items, n) ==
    CHOOSE k \in Kept(items) : Cardinality({j \in Kept(items) : j < k}) = n - 1

\* [t.strip() for t in items if t and str(t).strip()]
StrippedTypes(items) ==
    [n \in 1..Cardinality(Kept(items)) |-> strip(items[NthKept(items, n)])]

\* line 145: the stripped, escaped, non-blank entries of project_types
SafeTypes(project_types) ==
    [n \in 1..Len(StrippedTypes(project_types.items)) |->
        SqlEscape(StrippedTypes(project_types.items)[n])]

\* the conditions of lines 140-163, in the order they are appended
CategoryCond(a) ==
    IF _project_category_where(a.project_category) # NoWhere
    THEN << [kind |-> "category", clause |-> _project_category_where(a.project_category)] >>
    ELSE <<>>
TypesCond(a) ==
    IF ~a.project_types.is_none /\ Len(a.project_types.items) > 0
          /\ SafeTypes(a.project_types) # <<>>
    THEN << [kind |-> "IN", field |-> "projecttype", values |-> SafeTypes(a.project_types)] >>
    ELSE <<>>
\* a variant that keeps a condition for a filter made of blanks only
EqualsCondKeepBlank(field, value) ==
    IF Truthy(value)
    THEN << [kind |-> "UPPER =", field |-> field, literal |-> SqlEscape(strip(value))] >>
    ELSE <<>>

EqualsCond(field, value) ==
    IF NonBlank(value)
    THEN << [kind |-> "UPPER =", field |-> field, literal |-> SqlEscape(strip(value))] >>
    ELSE <<>>
LikeCond(field, value) ==
    IF NonBlank(value)
    THEN << [kind |-> "UPPER LIKE", field |-> field, literal |-> SqlEscape(strip(value))] >>
    ELSE <<>>

\* lines 138-163
Conditions(a) ==
    CategoryCond(a) \o TypesCond(a)
        \o EqualsCond("status", a.status)
        \o EqualsCond("ProjectStatus", a.project_status)
        \o LikeCond("jurisdiction", a.jurisdiction)
        \o LikeCond("ProjectPartners", a.project_partners)
        \o LikeCond("Subshed", a.subshed)

\* a variant that lets a call without conditions through
NoFiltersNever(a) == FALSE

\* line 165
NoFilters(a) == Conditions(a) = <<>> /\ ~a.allow_no_filters

\* line 168: the conditions joined with AND, or 1=1
WhereAll == [kind |-> "1=1", conds |-> <<>>]
Where(a) ==
    IF Conditions(a) # <<>> THEN [kind |-> "AND", conds |-> Conditions(a)] ELSE WhereAll

Max(x, y) == IF x >= y THEN x ELSE y
Min(x, y) == IF x <= y THEN x ELSE y

\* lines 169-174
EffectiveLimit(a) ==
    IF a.allow_no_filters /\ Conditions(a) = <<>> THEN MAX_PROJECTS_SEMANTIC_SEARCH
    ELSE IF Truthy(a.project_category) /\ lower(a.project_category) \in CategoryNames
    THEN Max(a.limit, MAX_PROJECTS_BY_CATEGORY)
    ELSE a.limit

\* lines 175-182: the request to the primary layer
PrimaryRequest(a) ==
    [layer |-> LAKE_COUNTY_SEARCH_LAYER_ID, where |-> Where(a),
     resultRecordCount |-> EffectiveLimit(a) + 1]

\* What the primary layer may answer to a request for at most n rows: a
\* transport failure, an error body, or a body with some number of features.
PrimaryResponses(n) ==
    { [kind |-> "exception",   has_error |-> FALSE, n_features |-> 0],
      [kind |-> "http_status", has_error |-> FALSE, n_features |-> 0],
      [kind |-> "body",        has_error |-> TRUE,  n_features |-> 0] }
    \cup { [kind |-> "body", has_error |-> FALSE, n_features |-> k] : k \in {0, 1, n - 1, n} }

Unset == [pending |-> TRUE]

\* the arguments a caller of query_lake_county_projects may pass
StatusArgs == {None, <<" ">>, <<"b", "'">>}
ProjectStatusArgs == {None, <<" ", "a", " ">>}
TypesArgs == {NoList, List(<< <<" ">>, <<>> >>), List(<< <<"x">>, <<" ">>, <<" ", "y", "'">> >>)}
JurisdictionArgs == {None, <<" ">>, <<"a", " ">>}
PartnersArgs == {None, <<"a">>}
SubshedArgs == {<<>>, <<"b">>}

QueryArgs ==
    [status : StatusArgs, project_status : ProjectStatusArgs, project_types : TypesArgs,
     jurisdiction : JurisdictionArgs, project_partners : PartnersArgs,
     subshed : SubshedArgs, project_category : CategoryArgs,
     limit : {MAX_LIST_PROJECTS, MAX_PROJECTS_BY_CATEGORY + MAX_LIST_PROJECTS},
     allow_no_filters : BOOLEAN]

\* what the actions of the query leave alone
notQuery == <<cacheVars, rv, cat>>

QueryInit ==
    /\ \E a \in QueryArgs :
          q = [stage |-> "call", tool |-> Unset, args |-> a, conditions |-> <<>>,
               requests |-> <<>>, effective_limit |-> 0, result |-> Unset]
    /\ ColdCache
    /\ rv = None /\ cat = None

\* lines 138-185: the conditions are built; the call returns at once without
\* them (line 166) or sends the request to the primary layer
QueryStart ==
    /\ q.stage = "call"
    /\ IF NoFilters(q.args)
       THEN q' = [q EXCEPT !.stage = "done",
                           !.conditions = Conditions(q.args),
                           !.result = [found |-> FALSE, n_matches |-> 0,
                                       limit_exceeded |-> FALSE,
                                       message |-> "No filters provided."]]
       ELSE q' = [q EXCEPT !.stage = "sent",
                           !.conditions = Conditions(q.args),
                           !.effective_limit = EffectiveLimit(q.args),
                           !.requests = Append(q.requests, PrimaryRequest(q.args))]
    /\ UNCHANGED notQuery

\* lines 187-201 and 237: the answer of the primary layer
PrimaryResult(resp, effective_limit) ==
    IF resp.kind # "body" \/ resp.has_error
    THEN [found |-> FALSE, n_matches |-> 0, limit_exceeded |-> FALSE, message |-> ""]
    ELSE [found |-> TRUE, n_matches |-> Min(resp.n_features, effective_limit),
          limit_exceeded |-> resp.n_features > effective_limit, message |-> ""]

PrimaryResponse(resp) ==
    /\ q.stage = "sent"
    /\ q' = [q EXCEPT !.stage = "done",
                      !.result = PrimaryResult(resp, q.effective_limit)]
    /\ UNCHANGED notQuery

QueryNext ==
    \/ QueryStart
    \/ \E resp \in PrimaryResponses(q.effective_limit + 1) : PrimaryResponse(resp)

SpecQuery == QueryInit /\ [][QueryNext]_vars

\* ------------------------------------------- the tool list_lake_county_projects

\* a variant that drops a filter the vocabulary does not resolve
ResolvedOrNone(value, vocabulary) ==
    IF NonBlank(value) /\ Truthy(_resolve_value(strip(value), vocabulary))
    THEN _resolve_value(strip(value), vocabulary)
    ELSE None

\* list_lake_county_projects.py:94-110: the vocabulary entry the value resolves
\* to, or else the stripped value; None for a blank value
ResolvedOrInput(value, vocabulary) ==
    IF NonBlank(value)
    THEN IF Truthy(_resolve_value(strip(value), vocabulary))
         THEN _resolve_value(strip(value), vocabulary)
         ELSE strip(value)
    ELSE None

\* lines 112-114
StripOrNone(value) == IF NonBlank(value) THEN strip(value) ELSE None

\* line 120
ProjectTypesVal(project_types) ==
    IF ~project_types.is_none /\ Len(project_types.items) > 0
    THEN List(StrippedTypes(project_types.items))
    ELSE NoList

\* lines 123-131
CategoryVal(project_category) ==
    IF NonBlank(project_category)
    THEN LET name == lower(strip(project_category))
         IN  IF name \in {PROJECT_CATEGORY_PROJECTS, <<"p","r","o","j","e","c","t">>}
             THEN PROJECT_CATEGORY_PROJECTS
             ELSE IF name \in {PROJECT_CATEGORY_STUDIES, <<"s","t","u","d","y">>}
             THEN PROJECT_CATEGORY_STUDIES
             ELSE IF name \in {PROJECT_CATEGORY_FLOOD_AUDITS, <<"f","l","o","o","d","_","a","u","d","i","t">>,
                               <<"f","l","o","o","d"," ","a","u","d","i","t">>}
             THEN PROJECT_CATEGORY_FLOOD_AUDITS
             ELSE None
    ELSE None

\* a variant that does not default the category of a call without filters
ToolLocalsNoDefault(in, domains) ==
    LET resolved_status == ResolvedOrInput(in.status, domains["status"])
        resolved_project_status ==
            ResolvedOrInput(in.project_status, domains["ProjectStatus"])
        jurisdiction_val == StripOrNone(in.jurisdiction)
        partners_val == StripOrNone(in.project_partners)
        subshed_val == StripOrNone(in.subshed)
        project_types_val == ProjectTypesVal(in.project_types)
        has_filters ==
            \/ Truthy(resolved_status)
            \/ Truthy(resolved_project_status)
            \/ (~project_types_val.is_none /\ Len(project_types_val.items) > 0)
            \/ Truthy(jurisdiction_val)
            \/ Truthy(partners_val)
            \/ Truthy(subshed_val)
        category_val == CategoryVal(in.project_category)
    IN  [has_filters |-> has_filters,
         args |-> [status |-> resolved_status,
                   project_status |-> resolved_project_status,
                   project_types |-> project_types_val,
                   jurisdiction |-> jurisdiction_val,
                   project_partners |-> partners_val,
                   subshed |-> subshed_val,
                   project_category |-> category_val,
                   limit |-> MAX_LIST_PROJECTS,
                   allow_no_filters |-> (~has_filters /\ ~Truthy(category_val))]]

\* lines 94-154: the locals of the tool once the vocabularies are fetched, and
\* the arguments it passes to query_lake_county_projects
ToolLocals(in, domains) ==
    LET resolved_status == ResolvedOrInput(in.status, domains["status"])
        resolved_project_status ==
            ResolvedOrInput(in.project_status, domains["ProjectStatus"])
        jurisdiction_val == StripOrNone(in.jurisdiction)
        partners_val == StripOrNone(in.project_partners)
        subshed_val == StripOrNone(in.subshed)
        project_types_val == ProjectTypesVal(in.project_types)
        has_filters ==
            \/ Truthy(resolved_status)
            \/ Truthy(resolved_project_status)
            \/ (~project_types_val.is_none /\ Len(project_types_val.items) > 0)
            \/ Truthy(jurisdiction_val)
            \/ Truthy(partners_val)
            \/ Truthy(subshed_val)
        category_val ==
            IF ~has_filters /\ ~Truthy(CategoryVal(in.project_category))
            THEN PROJECT_CATEGORY_PROJECTS
            ELSE CategoryVal(in.project_category)
    IN  [has_filters |-> has_filters,
         args |-> [status |-> resolved_status,
                   project_status |-> resolved_project_status,
                   project_types |-> project_types_val,
                   jurisdiction |-> jurisdiction_val,
                   project_partners |-> partners_val,
                   subshed |-> subshed_val,
                   project_category |-> category_val,
                   limit |-> MAX_LIST_PROJECTS,
                   allow_no_filters |-> (~has_filters /\ ~Truthy(category_val))]]

\* the arguments the agent may pass to the tool
ToolStatusArgs == {None, <<" ", "a", " ">>, <<"b", "'">>}
ToolProjectStatusArgs == {<<" ">>, <<"b">>, <<" ", "x">>}
ToolTypesArgs == {NoList, List(<< <<" ">> >>), List(<< <<"x", " ">>, <<>> >>)}
ToolJurisdictionArgs == {None, <<" ","C","h","I","c","a","g","o">>}
ToolPartnersArgs == {None, <<"a">>}
ToolSubshedArgs == {<<>>, <<"b">>}
ToolCategoryArgs == {None, <<"s","t","u","d","y">>, <<" ","P","r","o","j","e","c","t","s"," ">>, <<"x">>}

ToolArgs ==
    [status : ToolStatusArgs, project_status : ToolProjectStatusArgs,
     project_types : ToolTypesArgs, jurisdiction : ToolJurisdictionArgs,
     project_partners : ToolPartnersArgs, subshed : ToolSubshedArgs,
     project_category : ToolCategoryArgs]

ListInit ==
    /\ \E in \in ToolArgs :
          q = [stage |-> "tool",
               tool |-> [name |-> "list_lake_county_projects",
                         in |-> in, domains |-> NoDict, has_filters |-> FALSE,
                         jurisdiction_boundary |-> FALSE, out |-> Unset],
               args |-> Unset, conditions |-> <<>>, requests |-> <<>>,
               effective_limit |-> 0, result |-> Unset]
    /\ ColdCache
    /\ rv = None /\ cat = None

\* What one _fetch_domain of the gather can hand back for each field (service
\* lines 54-79): the values and whether the fetch failed
FieldOutcomes ==
    [f \in Fields |-> {[values |-> _fetch_domain(f, resp), failed |-> FetchFailed(resp)] :
                          resp \in Responses(f)}]

\* lines 92-154: the first call of the tool in a process finds no snapshot, so
\* fetch_lake_county_domains queries every field and installs what it got
\* (service lines 47-87); the tool resolves its arguments, asks for the
\* boundary of the jurisdiction if one is given (line 118, some or none comes
\* back) and calls query_lake_county_projects
ToolPrepare(got, boundary) ==
    /\ q.stage = "tool"
    /\ ~CacheFresh
    /\ LET domains == [f \in Fields |-> got[f].values]
           failed == [f \in Fields |-> got[f].failed]
           locals == ToolLocals(q.tool.in, domains)
       IN  /\ _domains_cache' = domains
           /\ _domains_cache_ts' = now
           /\ rounds' = rounds + 1
           /\ cacheRound' = [f \in Fields |-> rounds + 1]
           /\ cacheFailed' = failed
           /\ sent' = [f \in Fields |-> sent[f] + 1]
           /\ lastRet' = [hit |-> FALSE, value |-> domains,
                          rnd |-> [f \in Fields |-> rounds + 1], failed |-> failed]
           /\ q' = [q EXCEPT !.stage = "call",
                             !.tool.domains = domains,
                             !.tool.has_filters = locals.has_filters,
                             !.tool.jurisdiction_boundary =
                                 (Truthy(locals.args.jurisdiction) /\ boundary),
                             !.args = locals.args]
    /\ UNCHANGED <<now, pc, gathered, round, rv, cat>>

\* lines 156-197: what the tool returns for the result of the query
ToolOut(result, has_filters, jurisdiction_boundary) ==
    IF ~result.found
    THEN [project_result |-> "None", total_returned |-> 0, limit_exceeded |-> FALSE,
          note |-> "No Lake County projects found", max_shown |-> 0,
          jurisdiction_boundary |-> FALSE]
    ELSE [project_result |-> "list", total_returned |-> result.n_matches,
          limit_exceeded |-> result.limit_exceeded,
          note |-> IF result.limit_exceeded THEN "Results are limited to"
                   ELSE IF ~has_filters THEN "Showing all"
                   ELSE "",
          max_shown |-> IF result.limit_exceeded
                        THEN (IF ~has_filters THEN 200 ELSE 50)
                        ELSE 0,
          jurisdiction_boundary |-> jurisdiction_boundary]

\* lines 156-197: the tool returns
ToolReturn ==
    /\ q.stage = "done"
    /\ q.tool.name = "list_lake_county_projects"
    /\ q' = [q EXCEPT !.stage = "returned",
                      !.tool.out = ToolOut(q.result, q.tool.has_filters,
                                           q.tool.jurisdiction_boundary)]
    /\ UNCHANGED notQuery

ListNext ==
    \/ \E s \in FieldOutcomes["status"], p \in FieldOutcomes["ProjectStatus"],
          j \in FieldOutcomes["jurisdiction"], boundary \in BOOLEAN :
          ToolPrepare([f \in Fields |-> CASE f = "status" -> s
                                          [] f = "ProjectStatus" -> p
                                          [] f = "jurisdiction" -> j], boundary)
    \/ QueryStart
    \/ \E resp \in PrimaryResponses(q.effective_limit + 1) : PrimaryResponse(resp)
    \/ ToolReturn

SpecList == ListInit /\ [][ListNext]_vars

\* ----------------------------- the tool search_lake_county_project_descriptions

\* search_lake_county_project_descriptions.py:28
TOP_K_SEMANTIC == 15

\* lines 108-140: the locals of the search tool once the vocabularies are
\* fetched, and the arguments it passes to query_lake_county_projects
SearchLocals(in, domains) ==
    [status |-> ResolvedOrInput(in.status, domains["status"]),
     project_status |-> ResolvedOrInput(in.project_status, domains["ProjectStatus"]),
     project_types |-> ProjectTypesVal(in.project_types),
     jurisdiction |-> StripOrNone(in.jurisdiction),
     project_partners |-> StripOrNone(in.project_partners),
     subshed |-> StripOrNone(in.subshed),
     project_category |-> PROJECT_CATEGORY_PROJECTS,
     limit |-> MAX_LIST_PROJECTS,
     allow_no_filters |-> TRUE]

\* the arguments the agent may pass to the search tool
SearchArgs ==
    [semantic_query : {None, <<" ">>, <<" ", "a">>},
     status : ToolStatusArgs, project_status : ToolProjectStatusArgs,
     project_types : ToolTypesArgs, jurisdiction : ToolJurisdictionArgs,
     project_partners : ToolPartnersArgs, subshed : ToolSubshedArgs]

\* one call of either tool in a process that has made none yet
ToolsInit ==
    /\ \/ \E in \in ToolArgs :
             q = [stage |-> "tool",
                  tool |-> [name |-> "list_lake_county_projects",
                            in |-> in, domains |-> NoDict, has_filters |-> FALSE,
                            jurisdiction_boundary |-> FALSE, out |-> Unset],
                  args |-> Unset, conditions |-> <<>>, requests |-> <<>>,
                  effective_limit |-> 0, result |-> Unset]
       \/ \E in \in SearchArgs :
             q = [stage |-> "search_tool",
                  tool |-> [name |-> "search_lake_county_project_descriptions",
                            in |-> in, domains |-> NoDict, has_filters |-> FALSE,
                            jurisdiction_boundary |-> FALSE, out |-> Unset],
                  args |-> Unset, conditions |-> <<>>, requests |-> <<>>,
                  effective_limit |-> 0, result |-> Unset]
    /\ ColdCache
    /\ rv = None /\ cat = None

\* lines 92-104: without a semantic query the tool returns at once
SearchRefuse ==
    /\ q.stage = "search_tool"
    /\ ~NonBlank(q.tool.in.semantic_query)
    /\ q' = [q EXCEPT !.stage = "returned",
                      !.tool.out = [project_result |-> "None", total_returned |-> 0,
                                    limit_exceeded |-> FALSE,
                                    note |-> "Please provide a semantic query",
                                    jurisdiction_boundary |-> FALSE]]
    /\ UNCHANGED notQuery

\* lines 106-140: the first call of the tool in a process finds no snapshot,
\* so fetch_lake_county_domains queries every field and installs what it got
\* (service lines 47-87); the tool resolves its arguments, asks for the
\* boundary of the jurisdiction if one is given (line 126) and calls
\* query_lake_county_projects with the 'projects' category
SearchPrepare(got, boundary) ==
    /\ q.stage = "search_tool"
    /\ NonBlank(q.tool.in.semantic_query)
    /\ ~CacheFresh
    /\ LET domains == [f \in Fields |-> got[f].values]
           failed == [f \in Fields |-> got[f].failed]
           args == SearchLocals(q.tool.in, domains)
       IN  /\ _domains_cache' = domains
           /\ _domains_cache_ts' = now
           /\ rounds' = rounds + 1
           /\ cacheRound' = [f \in Fields |-> rounds + 1]
           /\ cacheFailed' = failed
           /\ sent' = [f \in Fields |-> sent[f] + 1]
           /\ lastRet' = [hit |-> FALSE, value |-> domains,
                          rnd |-> [f \in Fields |-> rounds + 1], failed |-> failed]
           /\ q' = [q EXCEPT !.stage = "call",
                             !.tool.domains = domains,
                             !.tool.jurisdiction_boundary =
                                 (Truthy(args.jurisdiction) /\ boundary),
                             !.args = args]
    /\ UNCHANGED <<now, pc, gathered, round, rv, cat>>

\* lines 142-219: what the search tool returns for the result of the query;
\* the similarity search keeps the min(TOP_K_SEMANTIC, len(matches)) best
\* matches (which ones is not modelled)
SearchOut(result, jurisdiction_boundary) ==
    IF ~result.found
    THEN [project_result |-> "None", total_returned |-> 0, limit_exceeded |-> FALSE,
          note |-> "No Lake County projects found", jurisdiction_boundary |-> FALSE]
    ELSE IF result.n_matches = 0
    THEN [project_result |-> "None", total_returned |-> 0, limit_exceeded |-> FALSE,
          note |-> "No project descriptions available to search",
          jurisdiction_boundary |-> FALSE]
    ELSE [project_result |-> "list",
          total_returned |-> Min(TOP_K_SEMANTIC, result.n_matches),
          limit_exceeded |-> result.limit_exceeded,
          note |-> IF result.limit_exceeded THEN "Initial filter returned 200+ projects"
                   ELSE "",
          jurisdiction_boundary |-> jurisdiction_boundary]

SearchReturn ==
    /\ q.stage = "done"
    /\ q.tool.name = "search_lake_county_project_descriptions"
    /\ q' = [q EXCEPT !.stage = "returned",
                      !.tool.out = SearchOut(q.result, q.tool.jurisdiction_boundary)]
    /\ UNCHANGED notQuery

ToolsNext ==
    \/ \E s \in FieldOutcomes["status"], p \in FieldOutcomes["ProjectStatus"],
          j \in FieldOutcomes["jurisdiction"], boundary \in BOOLEAN :
          ToolPrepare([f \in Fields |-> CASE f = "status" -> s
                                          [] f = "ProjectStatus" -> p
                                          [] f = "jurisdiction" -> j], boundary)
    \/ SearchRefuse
    \/ \E s \in FieldOutcomes["status"], p \in FieldOutcomes["ProjectStatus"],
          j \in FieldOutcomes["jurisdiction"], boundary \in BOOLEAN :
          SearchPrepare([f \in Fields |-> CASE f = "status" -> s
                                            [] f = "ProjectStatus" -> p
                                            [] f = "jurisdiction" -> j], boundary)
    \/ QueryStart
    \/ \E resp \in PrimaryResponses(q.effective_limit + 1) : PrimaryResponse(resp)
    \/ ToolReturn
    \/ SearchReturn

SpecTools == ToolsInit /\ [][ToolsNext]_vars

\* ------------------------------------- the four primary queries of the service

\* lake_county_service.py:26, 465, 599
MAX_MATCHES == 10
MAX_PREAPPS == 200
MAX_CONCERNS == 200

\* an identifier that is absent (Python's None where an integer is expected)
NoId == -1

\* lake_county_config.py:14-57 and 81-86: the geometry layers and the layer a
\* Geometry discriminator names ("none" where the dict has no such key)
GeometryLayers == {"project_areas", "project_points", "project_lines"}
GEOMETRY_TYPE_TO_LAYER(geom_type) ==
    CASE geom_type = "Polygon"  -> "project_areas"
      [] geom_type = "Point"    -> "project_points"
      [] geom_type = "Polyline" -> "project_lines"
      [] geom_type = "Line"     -> "project_lines"
      [] OTHER                  -> "none"

\* lines 504 and 616: the exclusion every list of conditions starts with
ArchivedCond(column) ==
    [kind |-> "<>", field |-> column, literal |-> <<"A","r","c","h","i","v","e","d">>]

\* a variant that appends the exclusion after the caller's filters
PreappConditionsExclusionLast(a) ==
    LikeCond("jurisdiction", a.jurisdiction)
        \o LikeCond("Subshed", a.subshed)
        \o << ArchivedCond("status") >>

\* lines 504-510
PreappConditions(a) ==
    << ArchivedCond("status") >>
        \o LikeCond("jurisdiction", a.jurisdiction)
        \o LikeCond("Subshed", a.subshed)

\* lines 616-628
ConcernConditions(a) ==
    << ArchivedCond("status_CIRS") >>
        \o LikeCond("jurisdiction", a.jurisdiction)
        \o LikeCond("category_report", a.category_report)
        \o LikeCond("problem", a.problem)
        \o LikeCond("frequency_problem", a.frequency_problem)

\* " AND ".join(conditions)
JoinAnd(conds) == [kind |-> "AND", conds |-> conds]

\* the where parameter of the primary request (lines 168, 392, 512, 630)
EntityWhere(call) ==
    CASE call.kind = "projects" -> Where(call.args)
      [] call.kind = "preapps"  -> JoinAnd(PreappConditions(call.args))
      [] call.kind = "concerns" -> JoinAnd(ConcernConditions(call.args))
      [] call.kind = "search"   -> JoinAnd(LikeCond("Name", call.args.name))

\* the number of records the query keeps at most (lines 169-174, 459, 539, 657)
EntityCap(call) ==
    CASE call.kind = "projects" -> EffectiveLimit(call.args)
      [] call.kind = "preapps"  -> call.args.limit
      [] call.kind = "concerns" -> call.args.limit
      [] call.kind = "search"   -> MAX_MATCHES

\* resultRecordCount of the primary request (lines 181, 400, 519, 637)
EntityCount(call) ==
    IF call.kind = "search" THEN MAX_MATCHES ELSE EntityCap(call) + 1

\* the layer the primary request goes to (lines 184, 390, 522, 640)
EntityTarget(call) ==
    CASE call.kind = "projects" -> LAKE_COUNTY_SEARCH_LAYER_ID
      [] call.kind = "preapps"  -> "PREAPP_POINT_URL"
      [] call.kind = "concerns" -> "CIRS_POINT_URL"
      [] call.kind = "search"   -> LAKE_COUNTY_SEARCH_LAYER_ID

\* lines 165-166 and 381-383: the calls that return before any request
EntityReturnsEarly(call) ==
    CASE call.kind = "projects" -> NoFilters(call.args)
      [] call.kind = "search"   -> ~NonBlank(call.args.name)
      [] OTHER                  -> FALSE

EarlyResult(call) ==
    IF call.kind = "projects"
    THEN [found |-> FALSE, matches |-> <<>>, limit_exceeded |-> FALSE,
          message |-> "No filters provided."]
    ELSE [found |-> FALSE, matches |-> <<>>]

\* The records of a primary layer, in the order the service returns them. The
\* n-th record has identifier n, except that every fifth has the identifier 0
\* and every seventh has none; the Geometry discriminator cycles over the four
\* known names, an unknown name and the empty string.
GeometryNames == <<"Polygon", "Point", "Polyline", "Line", "MultiPatch", "">>
Row(n) ==
    [n |-> n,
     id |-> IF n % 7 = 0 THEN NoId ELSE IF n % 5 = 0 THEN 0 ELSE n,
     Geometry |-> GeometryNames[(n % 6) + 1]]

\* the features of a successful response: the service holds `held` records
\* that satisfy the where-clause and returns no more than resultRecordCount
ReturnedRows(held, resultRecordCount) ==
    [n \in 1..Min(held, resultRecordCount) |-> Row(n)]

\* features[:cap]
Truncate(features, cap) == SubSeq(features, 1, Min(Len(features), cap))

\* lines 203-212: the identifiers grouped by the layer their record names
ProjectIdsByLayer(features) ==
    [layer \in GeometryLayers |->
        LET sel == SelectSeq(features,
                       LAMBDA f : f.id > 0 /\ f.Geometry # ""
                                  /\ GEOMETRY_TYPE_TO_LAYER(f.Geometry) = layer)
        IN  [k \in 1..Len(sel) |-> sel[k].id]]

\* the layers of project_ids_by_layer in the order their keys were inserted
FirstUse(features, layer) ==
    CHOOSE k \in 1..Len(features) :
        /\ features[k].id > 0 /\ features[k].Geometry # ""
        /\ GEOMETRY_TYPE_TO_LAYER(features[k].Geometry) = layer
        /\ \A j \in 1..(k - 1) :
              ~(features[j].id > 0 /\ features[j].Geometry # ""
                /\ GEOMETRY_TYPE_TO_LAYER(features[j].Geometry) = layer)
UsedLayers(features) == {layer \in GeometryLayers : ProjectIdsByLayer(features)[layer] # <<>>}
RECURSIVE LayersInOrder(_, _)
LayersInOrder(features, layers) ==
    IF layers = {} THEN <<>>
    ELSE LET first == CHOOSE l \in layers :
                         \A m \in layers : FirstUse(features, l) <= FirstUse(features, m)
         IN  <<first>> \o LayersInOrder(features, layers \ {first})

\* a variant that issues one request per record instead of one per layer
BatchRequestsPerRecord(features) ==
    LET sel == SelectSeq(features,
                   LAMBDA f : f.id > 0 /\ f.Geometry # ""
                              /\ GEOMETRY_TYPE_TO_LAYER(f.Geometry) # "none")
    IN  [k \in 1..Len(sel) |->
            [target |-> GEOMETRY_TYPE_TO_LAYER(sel[k].Geometry), method |-> "POST",
             purpose |-> "geometry",
             where |-> [kind |-> "IN", field |-> "project_id", values |-> <<sel[k].id>>],
             resultRecordCount |-> 2000]]

\* lines 333-349 and 366-370: one POST per layer that has identifiers
BatchRequests(features) ==
    LET order == LayersInOrder(features, UsedLayers(features))
    IN  [k \in 1..Len(order) |->
            [target |-> order[k], method |-> "POST", purpose |-> "geometry",
             where |-> [kind |-> "IN", field |-> "project_id",
                        values |-> ProjectIdsByLayer(features)[order[k]]],
             resultRecordCount |-> 2000]]

\* lines 542-561: one POST to the geometry layer if any record has an identifier
PreappGeometryRequests(features) ==
    LET sel == SelectSeq(features, LAMBDA f : f.id # NoId)
    IN  IF sel = <<>> THEN <<>>
        ELSE << [target |-> "PREAPP_GEOMETRY_URL", method |-> "POST", purpose |-> "geometry",
                 where |-> [kind |-> "IN", field |-> "preapp_id",
                            values |-> [k \in 1..Len(sel) |-> sel[k].id]],
                 resultRecordCount |-> 2000] >>

\* lines 443-459 and 295-310: one GET per record that has an identifier and
\* names a layer
SearchGeometryRequests(features) ==
    LET sel == SelectSeq(features,
                   LAMBDA f : f.id > 0 /\ f.Geometry # ""
                              /\ GEOMETRY_TYPE_TO_LAYER(f.Geometry) # "none")
    IN  [k \in 1..Len(sel) |->
            [target |-> GEOMETRY_TYPE_TO_LAYER(sel[k].Geometry), method |-> "GET",
             purpose |-> "geometry",
             where |-> [kind |-> "=", field |-> "project_id", values |-> <<sel[k].id>>],
             resultRecordCount |-> 0]]

GeometryRequests(kind, features) ==
    CASE kind = "projects" -> BatchRequests(features)
      [] kind = "preapps"  -> PreappGeometryRequests(features)
      [] kind = "search"   -> SearchGeometryRequests(features)
      [] OTHER             -> <<>>

\* the calls a caller of the service may make
ProjectCalls ==
    [status : {None, <<"b", "'">>}, project_status : {None}, project_types : {NoList},
     jurisdiction : {None}, project_partners : {None}, subshed : {<<>>},
     project_category : {None, PROJECT_CATEGORY_STUDIES},
     limit : {2, MAX_LIST_PROJECTS}, allow_no_filters : BOOLEAN]
PreappCalls ==
    [jurisdiction : {None, <<" ">>, <<"a", "'">>}, subshed : {None, <<"b", " ">>},
     limit : {2, MAX_PREAPPS}]
ConcernCalls ==
    [jurisdiction : {None, <<"a">>}, category_report : {None, <<" ">>},
     problem : {<<>>, <<"b">>}, frequency_problem : {None, <<" ", "a">>},
     limit : {2, MAX_CONCERNS}]
SearchCalls == [name : {None, <<" ">>, <<"a", "'">>, <<" ", "b">>}]

EntityCalls ==
    {[kind |-> "projects", args |-> a] : a \in ProjectCalls}
    \cup {[kind |-> "preapps", args |-> a] : a \in PreappCalls}
    \cup {[kind |-> "concerns", args |-> a] : a \in ConcernCalls}
    \cup {[kind |-> "search", args |-> a] : a \in SearchCalls}

\* how many records of the layer satisfy the where-clause of a call
HeldFor(call) ==
    {0, 1, EntityCap(call) - 1, EntityCap(call), EntityCap(call) + 1, EntityCap(call) + 2}

EntityInit ==
    /\ \E call \in EntityCalls : \E held \in HeldFor(call) :
          q = [stage |-> "call", call |-> call, held |-> held, requests |-> <<>>,
               response |-> "none", features |-> <<>>, limit_exceeded |-> FALSE,
               result |-> Unset]
    /\ ColdCache
    /\ rv = None /\ cat = None

\* the call returns at once (lines 165-166, 381-383) or sends the primary request
EntitySend ==
    /\ q.stage = "call"
    /\ IF EntityReturnsEarly(q.call)
       THEN q' = [q EXCEPT !.stage = "done", !.result = EarlyResult(q.call)]
       ELSE q' = [q EXCEPT !.stage = "sent",
                           !.requests = << [target |-> EntityTarget(q.call), method |-> "GET",
                                            purpose |-> "primary",
                                            where |-> EntityWhere(q.call),
                                            resultRecordCount |-> EntityCount(q.call)] >>]
    /\ UNCHANGED notQuery

\* what client.get + raise_for_status + resp.json() can produce
ResponseKinds == {"exception", "http_status", "error_body", "body"}

\* a variant that goes on to the geometry of an empty list after a failure
EntityFailedNever(response) == FALSE

\* lines 187-198, 426-433, 525-536, 643-654
EntityFailed(response) == response # "body"

\* the result of a query whose primary request failed
FailedResult(call) ==
    IF call.kind = "search" THEN [found |-> FALSE, matches |-> <<>>]
    ELSE [found |-> FALSE, matches |-> <<>>, limit_exceeded |-> FALSE]

\* the result of a query whose primary request succeeded
FoundResult(call, features, limit_exceeded) ==
    IF call.kind = "search" THEN [found |-> TRUE, matches |-> features]
    ELSE [found |-> TRUE, matches |-> features, limit_exceeded |-> limit_exceeded]

\* a variant that tests the number of features against the number requested
EntityAnswerInclusive(response) ==
    /\ q.stage = "sent"
    /\ LET features == IF EntityFailed(response) THEN <<>>
                       ELSE ReturnedRows(q.held, EntityCount(q.call))
           kept == Truncate(features, EntityCap(q.call))
           exceeded == q.call.kind # "search" /\ Len(features) >= EntityCap(q.call)
       IN  IF EntityFailed(response)
           THEN q' = [q EXCEPT !.stage = "done", !.response = response,
                               !.result = FailedResult(q.call)]
           ELSE IF q.call.kind = "search" /\ features = <<>>
           THEN q' = [q EXCEPT !.stage = "done", !.response = response,
                               !.result = [found |-> FALSE, matches |-> <<>>]]
           ELSE IF q.call.kind = "concerns"
           THEN q' = [q EXCEPT !.stage = "done", !.response = response,
                               !.features = kept, !.limit_exceeded = exceeded,
                               !.result = FoundResult(q.call, kept, exceeded)]
           ELSE q' = [q EXCEPT !.stage = "geometry", !.response = response,
                               !.features = kept, !.limit_exceeded = exceeded]
    /\ UNCHANGED notQuery

\* The answer to the primary request. A failure ends the call (lines 192-198,
\* 426-433, 530-536, 648-654); so does a search without features (437-439);
\* the features are cut to the cap (200-201, 459, 538-539, 656-657); concerns
\* carry their own geometry (659-672), the others go on to fetch it.
EntityAnswer(response) ==
    /\ q.stage = "sent"
    /\ LET features == IF EntityFailed(response) THEN <<>>
                       ELSE ReturnedRows(q.held, EntityCount(q.call))
           kept == Truncate(features, EntityCap(q.call))
           exceeded == q.call.kind # "search" /\ Len(features) > EntityCap(q.call)
       IN  IF EntityFailed(response)
           THEN q' = [q EXCEPT !.stage = "done", !.response = response,
                               !.result = FailedResult(q.call)]
           ELSE IF q.call.kind = "search" /\ features = <<>>
           THEN q' = [q EXCEPT !.stage = "done", !.response = response,
                               !.result = [found |-> FALSE, matches |-> <<>>]]
           ELSE IF q.call.kind = "concerns"
           THEN q' = [q EXCEPT !.stage = "done", !.response = response,
                               !.features = kept, !.limit_exceeded = exceeded,
                               !.result = FoundResult(q.call, kept, exceeded)]
           ELSE q' = [q EXCEPT !.stage = "geometry", !.response = response,
                               !.features = kept, !.limit_exceeded = exceeded]
    /\ UNCHANGED notQuery

\* lines 203-237, 441-462, 541-596: the geometry requests go out and the
\* matches are built, one per kept feature in the order of the features (which
\* geometry each match gets is the subject of SpecGeometry)
EntityGeometry ==
    /\ q.stage = "geometry"
    /\ q' = [q EXCEPT !.stage = "done",
                      !.requests = q.requests \o GeometryRequests(q.call.kind, q.features),
                      !.result = FoundResult(q.call, q.features, q.limit_exceeded)]
    /\ UNCHANGED notQuery

EntityNext ==
    \/ EntitySend
    \/ \E response \in ResponseKinds : EntityAnswer(response)
    \/ EntityGeometry

SpecEntity == EntityInit /\ [][EntityNext]_vars

\* ------------------------------------------------ geometry of the matches

\* the longest list of kept features considered
MaxRecords == 3

\* The features a primary layer may return, by what the code reads of them:
\* the identifier (project_id or preapp_id), the Geometry discriminator and
\* the inline geometry (the representative point, or null).
RecordChoices ==
    { [id |-> 1, Geometry |-> "Polygon", rep |-> "rep"],
      [id |-> 1, Geometry |-> "Point", rep |-> "rep"],
      [id |-> 2, Geometry |-> "Line", rep |-> "null"],
      [id |-> 2, Geometry |-> "Polyline", rep |-> "rep"],
      [id |-> 0, Geometry |-> "Point", rep |-> "rep"],
      [id |-> 3, Geometry |-> "Polygon", rep |-> "null"],
      [id |-> NoId, Geometry |-> "MultiPatch", rep |-> "null"] }

FeatureLists == UNION {[1..k -> RecordChoices] : k \in 0..MaxRecords}

\* the identifiers that occur in the layers
Ids == 0..3

\* What the secondary layers hold: features with an identifier and a geometry
\* (null for a feature without one), in the order the service returns them.
LayerContent ==
    [project_areas |-> << [id |-> 1, geometry |-> "A1"], [id |-> 1, geometry |-> "A1b"],
                          [id |-> 2, geometry |-> "A2"], [id |-> 3, geometry |-> "null"],
                          [id |-> 3, geometry |-> "A3"] >>,
     project_points |-> << [id |-> 1, geometry |-> "P1"], [id |-> 3, geometry |-> "P3"] >>,
     project_lines |-> << [id |-> 2, geometry |-> "L2"], [id |-> 2, geometry |-> "null"] >>,
     PREAPP_GEOMETRY_URL |-> << [id |-> 0, geometry |-> "G0"], [id |-> 1, geometry |-> "null"],
                                [id |-> 1, geometry |-> "G1"] >>]

\* the features of a layer a where-clause over identifiers selects
LayerAnswer(layer, ids) ==
    SelectSeq(LayerContent[layer], LAMBDA g : g.id \in Elems(ids))

\* a variant that keeps only the last feature of an identifier
MergeFeaturesReplace(by_id, features) ==
    [id \in Ids |->
        LET sel == SelectSeq(features, LAMBDA g : g.id = id)
        IN  IF sel = <<>> THEN by_id[id] ELSE << sel[Len(sel)] >>]

\* lines 358-364 and 564-569: the features are appended to the entry of their
\* identifier
MergeFeatures(by_id, features) ==
    [id \in Ids |-> by_id[id] \o SelectSeq(features, LAMBDA g : g.id = id)]

\* lines 223 and 581: geom_by_pid.get(id) if id else None (<<>> for None)
BatchEntry(by_id, id) == IF id > 0 THEN by_id[id] ELSE <<>>

\* lines 224-228 and 582-586
MatchGeometry(entry, rep) ==
    IF entry # <<>> /\ entry[1].geometry # "null" THEN entry[1].geometry ELSE rep

\* a variant that leaves out the records without a secondary geometry
BuildMatchesFoundOnly(features, by_id) ==
    LET sel == SelectSeq(features, LAMBDA f : BatchEntry(by_id, f.id) # <<>>)
    IN  [k \in 1..Len(sel) |->
            [attributes |-> sel[k],
             geometry_geojson |-> BatchEntry(by_id, sel[k].id),
             geometry |-> MatchGeometry(BatchEntry(by_id, sel[k].id), sel[k].rep)]]

\* lines 217-235 and 573-594: one match per feature, in the order of the features
BuildMatches(features, by_id) ==
    [k \in 1..Len(features) |->
        [attributes |-> features[k],
         geometry_geojson |-> BatchEntry(by_id, features[k].id),
         geometry |-> MatchGeometry(BatchEntry(by_id, features[k].id), features[k].rep)]]

\* lines 293-319: what the per-record path returns for one record when its
\* request succeeds (<<>> for None)
_fetch_project_geometry(project_id, geom_type) ==
    IF geom_type = "" \/ GEOMETRY_TYPE_TO_LAYER(geom_type) = "none" THEN <<>>
    ELSE LayerAnswer(GEOMETRY_TYPE_TO_LAYER(geom_type), <<project_id>>)

AllLayers == GeometryLayers \cup {"PREAPP_GEOMETRY_URL"}

GeometryInit ==
    /\ \E kind \in {"projects", "preapps"}, features \in FeatureLists :
          q = [stage |-> "features", kind |-> kind, features |-> features,
               requests |-> <<>>,
               layers |-> [l \in AllLayers |-> "idle"],
               by_id |-> [id \in Ids |-> <<>>],
               result |-> Unset]
    /\ ColdCache
    /\ rv = None /\ cat = None

\* the identifiers a geometry request carries
RequestedIds(request) == request.where.values

\* lines 203-215 and 366-370 (projects), 541-561 (pre-applications): the
\* identifiers are grouped and every request is issued before any is answered
GeometryStart ==
    /\ q.stage = "features"
    /\ LET requests == GeometryRequests(q.kind, q.features)
       IN  q' = [q EXCEPT !.stage = "gather",
                          !.requests = requests,
                          !.layers = [l \in AllLayers |->
                                         IF \E k \in 1..Len(requests) : requests[k].target = l
                                         THEN "pending" ELSE "idle"]]
    /\ UNCHANGED notQuery

\* the identifiers sent to a layer
SentTo(layer) ==
    LET k == CHOOSE k \in 1..Len(q.requests) : q.requests[k].target = layer
    IN  RequestedIds(q.requests[k])

\* a variant in which a failed request empties the map
LayerDoneClearing(layer, response) ==
    /\ q.stage = "gather"
    /\ q.layers[layer] = "pending"
    /\ q' = [q EXCEPT !.layers[layer] = response,
                      !.by_id = IF EntityFailed(response) THEN [id \in Ids |-> <<>>]
                                ELSE MergeFeatures(q.by_id, LayerAnswer(layer, SentTo(layer)))]
    /\ UNCHANGED notQuery

\* lines 348-364 (projects), 559-571 (pre-applications): one request is
\* answered; a failure leaves the map as it is, a body adds its features
LayerDone(layer, response) ==
    /\ q.stage = "gather"
    /\ q.layers[layer] = "pending"
    /\ q' = [q EXCEPT !.layers[layer] = response,
                      !.by_id = IF EntityFailed(response) THEN q.by_id
                                ELSE MergeFeatures(q.by_id, LayerAnswer(layer, SentTo(layer)))]
    /\ UNCHANGED notQuery

\* lines 217-237 and 573-596: every request is answered; the matches are built
GeometryFinish ==
    /\ q.stage = "gather"
    /\ \A l \in AllLayers : q.layers[l] # "pending"
    /\ q' = [q EXCEPT !.stage = "done",
                      !.result = [found |-> TRUE,
                                  matches |-> BuildMatches(q.features, q.by_id)]]
    /\ UNCHANGED notQuery

GeometryNext ==
    \/ GeometryStart
    \/ \E layer \in AllLayers, response \in ResponseKinds : LayerDone(layer, response)
    \/ GeometryFinish

SpecGeometry == GeometryInit /\ [][GeometryNext]_vars

\* ------------------------------------------- properties of the vocabulary cache

\* a snapshot exists and its age is below the TTL
WithinTtl == _domains_cache # NoDict /\ now - _domains_cache_ts < _DOMAINS_CACHE_TTL

\* the step in which caller c completes its refresh round and installs the result
Installs(c) == pc[c] = "fetching" /\ pc'[c] = "idle"

\* C1: once a field is cached with a non-empty value list, a refresh round in
\* which the fetch of that field fails leaves the cached values of that field
\* unchanged (preserve-on-failure).
C1_PreserveOnFailure ==
    [][\A c \in Callers, f \in Fields :
          (/\ Installs(c)
           /\ gathered[c][f].failed
           /\ _domains_cache # NoDict
           /\ _domains_cache[f] # <<>>)
          => _domains_cache'[f] = _domains_cache[f]]_vars

\* a mapping with all tracked fields, all of them produced by one refresh round
WholeSnapshot(m, r) ==
    /\ DOMAIN m = Fields
    /\ \E k \in 1..rounds : \A f \in Fields : r[f] = k

\* C2: the shared snapshot and every value returned to a caller is a whole
\* snapshot: all three fields, all from one single refresh round, under every
\* interleaving of the callers.
C2_WholeSnapshot ==
    /\ _domains_cache # NoDict => WholeSnapshot(_domains_cache, cacheRound)
    /\ lastRet.value # NoDict => WholeSnapshot(lastRet.value, lastRet.rnd)

\* C2's case: a caller was served the installed snapshot while another caller's
\* refresh round is in progress with some fields fetched and others not
C2_Witness ==
    /\ lastRet.hit
    /\ \E c \in Callers :
          /\ pc[c] = "fetching"
          /\ \E f, g \in Fields : gathered[c][f] # Pending /\ gathered[c][g] = Pending

\* C3: at most one refresh outcome is installed per TTL window: no round
\* installs its outcome while the snapshot of the current window is still
\* within the TTL.
C3_SingleInstallPerWindow ==
    [][\A c \in Callers : Installs(c) => ~WithinTtl]_vars

\* vals is the strictly ascending list of the distinct stripped non-blank values
SortedDistinctOf(vals, features) ==
    /\ \A i \in 1..(Len(vals) - 1) : StrLess(vals[i], vals[i + 1])
    /\ {vals[i] : i \in 1..Len(vals)} =
           {strip(features[k]) : k \in {j \in 1..Len(features) :
                                          features[j] # None /\ strip(features[j]) # <<>>}}

\* C4: in the mapping a refresh round returns, a field whose fetch failed is the
\* empty list and every other field holds the sorted distinct values fetched
\* for it; the round returns a mapping of all fields whatever failed.
C4_PerFieldFailure ==
    (~lastRet.hit /\ lastRet.value # NoDict) =>
        /\ DOMAIN lastRet.value = Fields
        /\ \A f \in Fields :
              IF lastRet.failed[f]
              THEN lastRet.value[f] = <<>>
              ELSE /\ lastRet.value[f] # <<>>
                   /\ SortedDistinctOf(lastRet.value[f], RemoteFeatures(f))

\* C4's case: a round returned with exactly one failed field
C4_Witness ==
    /\ ~lastRet.hit /\ lastRet.value # NoDict
    /\ lastRet.failed["ProjectStatus"]
    /\ ~lastRet.failed["status"] /\ ~lastRet.failed["jurisdiction"]
    /\ Len(lastRet.value["status"]) > 1

\* C5: a call made while a snapshot younger than 600 s exists issues no remote
\* query and returns that snapshot; a call made with no snapshot or one aged
\* 600 s or more issues exactly one query per field, and the round then
\* replaces the snapshot and its timestamp.
C5_Ttl ==
    [][/\ \A c \in Callers :
             (pc[c] = "idle" /\ pc'[c] = "fetching") =>
                 (~WithinTtl /\ \A f \in Fields : sent'[f] = sent[f] + 1)
       /\ sent' # sent => \E c \in Callers : pc[c] = "idle" /\ pc'[c] = "fetching"
       /\ (lastRet' # lastRet /\ lastRet'.hit) =>
             /\ WithinTtl
             /\ lastRet'.value = _domains_cache
             /\ UNCHANGED <<_domains_cache, _domains_cache_ts, sent>>
       /\ \A c \in Callers :
             Installs(c) =>
                 /\ _domains_cache' = [f \in Fields |-> gathered[c][f].values]
                 /\ _domains_cache_ts' = now
                 /\ lastRet' = [lastRet' EXCEPT !.hit = FALSE, !.value = _domains_cache']
      ]_vars

\* C5's case: with a snapshot installed, a second round was started at the age
\* of exactly 600 s
C5_Witness ==
    /\ _domains_cache # NoDict
    /\ now - _domains_cache_ts = _DOMAINS_CACHE_TTL
    /\ \E c \in Callers : pc[c] = "fetching" /\ round[c] = 2

\* -------------------------------------------- properties of the term resolver

\* the term of the resolution is an entry of the vocabulary, and the call is done
ResolvedVerbatim ==
    rv.stage = "done" /\ rv.user_value \in Elems(rv.domain_values)

\* C6 as stated: a term that is an entry of the vocabulary resolves to itself,
\* also when other entries equal it up to letter case.
C6_VerbatimReturnsItself ==
    ResolvedVerbatim => rv.result = rv.user_value

\* C6 as amended: a term that is an entry of the vocabulary resolves to the first
\* entry that equals it up to letter case, whatever entries start with or contain
\* it; that entry is the term itself when no other entry equals it up to case.
C6_ExactMatchPrecedence ==
    ResolvedVerbatim =>
        LET same == {i \in 1..Len(rv.domain_values) :
                        lower(rv.domain_values[i]) = lower(rv.user_value)}
        IN  /\ rv.result = rv.domain_values[FirstIndex(same)]
            /\ (\A i \in same : rv.domain_values[i] = rv.user_value)
                   => rv.result = rv.user_value

\* C6's case: the term is an entry, and an entry sorted before it contains it
C6_Witness ==
    /\ ResolvedVerbatim
    /\ rv.result = rv.user_value
    /\ \E i, j \in 1..Len(rv.domain_values) :
          /\ i < j
          /\ rv.domain_values[j] = rv.user_value
          /\ contains(lower(rv.user_value), lower(rv.domain_values[i]))

\* ------------------------------------------ properties of the category predicates

\* C8: the three category predicates are pairwise disjoint: over all records with
\* projectsubtype in {NULL, 'Flood Audit', 'Study', other} and is_study in
\* {NULL, 0, 1}, at most one of the three predicates is true.
C8_PairwiseDisjoint ==
    (cat.stage = "done" /\ cat.record.is_study \in {SqlNull, SqlVal("0"), SqlVal("1")})
        => Cardinality(cat.selected_by) <= 1

\* C9: the three category predicates leave no gap: every record whose is_study
\* is NULL, 0 or 1, whatever its projectsubtype, satisfies at least one of them.
C9_NoGap ==
    (cat.stage = "done" /\ cat.record.is_study \in {SqlNull, SqlVal("0"), SqlVal("1")})
        => cat.selected_by # {}

\* C9's case: a record with both columns NULL is selected, by 'projects'
C9_Witness ==
    /\ cat.stage = "done"
    /\ cat.record = [projectsubtype |-> SqlNull, is_study |-> SqlNull]
    /\ cat.selected_by = {PROJECT_CATEGORY_PROJECTS}

\* -------------------------------------------- properties of the project query

\* C10: whenever the built condition list is empty and allow_no_filters is
\* false, the query returns found=false with no matches and the reason
\* 'No filters provided.' and issues no remote call; the where-clause 1=1 is
\* sent to the primary layer only when allow_no_filters is true.
C10_NoUnscopedQuery ==
    /\ (q.stage # "call" /\ q.conditions = <<>> /\ ~q.args.allow_no_filters) =>
           /\ q.stage = "done"
           /\ q.requests = <<>>
           /\ q.result = [found |-> FALSE, n_matches |-> 0, limit_exceeded |-> FALSE,
                          message |-> "No filters provided."]
    /\ \A i \in 1..Len(q.requests) :
           q.requests[i].where.kind = "1=1" => q.args.allow_no_filters

\* C10's case: a call whose filters are all blank and whose category is not
\* recognised, without the permission, has returned
C10_Witness ==
    /\ q.stage = "done"
    /\ q.conditions = <<>>
    /\ ~q.args.allow_no_filters
    /\ q.args.status = <<" ">> /\ q.args.project_category = <<"f","l","o","o","d"," ","a","u","d","i","t">>
    /\ q.requests = <<>>

\* ------------------------------------ properties of list_lake_county_projects

\* the two resolved filters: the tool's argument, its vocabulary, its column
ResolvedFilters ==
    { [arg |-> "status", vocab |-> "status", column |-> "status"],
      [arg |-> "project_status", vocab |-> "ProjectStatus", column |-> "ProjectStatus"] }

\* the literals of the equality conditions on a column, in order
EqualityLiterals(conds, column) ==
    LET sel == SelectSeq(conds, LAMBDA c : c.kind = "UPPER =" /\ c.field = column)
    IN  [i \in 1..Len(sel) |-> sel[i].literal]

\* the tool was called with a non-blank value for the filter and got an empty
\* vocabulary for it
EmptyVocabulary(fld) ==
    /\ q.stage # "tool"
    /\ NonBlank(q.tool.in[fld.arg])
    /\ q.tool.domains[fld.vocab] = <<>>

\* the query was sent with exactly one equality condition on the column, whose
\* literal writes the value
FilteredBy(fld, value) ==
    /\ q.args[fld.arg] = value
    /\ q.stage # "call" =>
          /\ Len(q.requests) = 1
          /\ q.requests[1].where.kind = "AND"
          /\ EqualityLiterals(q.requests[1].where.conds, fld.column) = << SqlEscape(value) >>

\* C7 as stated: for every non-blank status or project_status, when the
\* vocabulary of the field is empty, the predicate keeps a condition on the
\* field and the value it uses is the user's input unchanged.
C7_PassThroughUnchanged ==
    \A fld \in ResolvedFilters :
        EmptyVocabulary(fld) => FilteredBy(fld, q.tool.in[fld.arg])

\* C7 (amended): for every non-blank status or project_status, when the
\* vocabulary of the field is empty, the predicate keeps exactly one equality
\* condition on the field and the value it uses is the user's input with its
\* leading and trailing whitespace removed; no vocabulary entry replaces it.
C7_PassThroughTrimmed ==
    \A fld \in ResolvedFilters :
        EmptyVocabulary(fld) => FilteredBy(fld, strip(q.tool.in[fld.arg]))

\* C7's case: both vocabularies came back empty from failed fetches, the tool
\* was given a padded status and a padded project_status, and the query went out
C7_Witness ==
    /\ q.stage = "returned"
    /\ q.tool.in.status = <<" ", "a", " ">>
    /\ q.tool.in.project_status = <<" ", "x">>
    /\ q.tool.domains["status"] = <<>> /\ cacheFailed["status"]
    /\ q.tool.domains["ProjectStatus"] = <<>>
    /\ Len(q.requests) = 1
    /\ q.result.found

\* ------------------------------------------ properties of the primary queries

\* the caller's filters of a pre-application or concern query: column and value
CallerFilters(call) ==
    IF call.kind = "preapps"
    THEN << [field |-> "jurisdiction", value |-> call.args.jurisdiction],
            [field |-> "Subshed", value |-> call.args.subshed] >>
    ELSE << [field |-> "jurisdiction", value |-> call.args.jurisdiction],
            [field |-> "category_report", value |-> call.args.category_report],
            [field |-> "problem", value |-> call.args.problem],
            [field |-> "frequency_problem", value |-> call.args.frequency_problem] >>

\* the column whose value 'Archived' excludes a record
ArchivedColumn(call) == IF call.kind = "preapps" THEN "status" ELSE "status_CIRS"

\* the request to the primary layer has been sent
PrimarySent == q.stage # "call" /\ Len(q.requests) >= 1

\* C11: for every combination of inputs to query_lake_county_preapps and
\* query_lake_county_concerns the where-clause sent has the archived exclusion
\* as its first conjunct, every caller-supplied filter is joined to it with AND
\* only (one LIKE condition per non-blank filter, in the order of the
\* parameters), and with no filters the predicate is exactly the exclusion.
C11_ArchivedExclusionFirst ==
    (q.call.kind \in {"preapps", "concerns"} /\ PrimarySent) =>
        LET where == q.requests[1].where
            given == SelectSeq(CallerFilters(q.call), LAMBDA f : NonBlank(f.value))
        IN  /\ where.kind = "AND"
            /\ Len(where.conds) = 1 + Len(given)
            /\ where.conds[1] = [kind |-> "<>", field |-> ArchivedColumn(q.call),
                                 literal |-> <<"A","r","c","h","i","v","e","d">>]
            /\ \A k \in 1..Len(given) :
                  where.conds[k + 1] = [kind |-> "UPPER LIKE", field |-> given[k].field,
                                        literal |-> SqlEscape(strip(given[k].value))]
            /\ (given = <<>>) => where.conds = << where.conds[1] >>

\* C11's case: a pre-application query with both filters given has been sent
C11_Witness ==
    /\ q.call.kind = "preapps"
    /\ q.call.args.jurisdiction = <<"a", "'">> /\ q.call.args.subshed = <<"b", " ">>
    /\ q.stage = "done"
    /\ Len(q.requests[1].where.conds) = 3

\* C12: a pre-application query for which the service returns zero rows (every
\* record is archived) yields a result with found=false.
C12_AllArchivedNotFound ==
    (q.call.kind = "preapps" /\ q.stage = "done" /\ q.response = "body" /\ q.held = 0) =>
        ~q.result.found

\* the query ran to its end on a successful answer of the primary layer
AnsweredList ==
    /\ q.call.kind \in {"projects", "preapps", "concerns"}
    /\ q.stage = "done"
    /\ q.response = "body"

\* C13: with effective cap C the request asks for C+1 rows; if the service
\* holds exactly C matching rows the result has limit_exceeded=false and C
\* matches; if it holds C+1 or more, limit_exceeded=true and exactly C matches,
\* the first C rows returned.
C13_TruncationDetection ==
    AnsweredList =>
        LET C == EntityCap(q.call)
        IN  /\ q.requests[1].resultRecordCount = C + 1
            /\ q.held = C => (~q.result.limit_exceeded /\ Len(q.result.matches) = C)
            /\ q.held >= C + 1 =>
                  /\ q.result.limit_exceeded
                  /\ q.result.matches = [n \in 1..C |-> Row(n)]

\* C13's case: a category query (cap 1000) against 1001 matching rows
C13_Witness ==
    /\ AnsweredList
    /\ q.call.kind = "projects"
    /\ q.held = MAX_PROJECTS_BY_CATEGORY + 1
    /\ q.result.limit_exceeded
    /\ Len(q.result.matches) = MAX_PROJECTS_BY_CATEGORY

\* C14: for each primary query a transport failure or an 'error' body produces
\* found=false with an empty match list and limit_exceeded not true; the call
\* returns a result and no geometry query is issued afterwards.
C14_PrimaryFailure ==
    (q.stage # "call" /\ q.response \in {"exception", "http_status", "error_body"}) =>
        /\ q.stage = "done"
        /\ q.result # Unset
        /\ ~q.result.found
        /\ q.result.matches = <<>>
        /\ "limit_exceeded" \in DOMAIN q.result => ~q.result.limit_exceeded
        /\ \A k \in 1..Len(q.requests) : q.requests[k].purpose = "primary"

\* C14's case: the name search got a non-2xx status from the primary layer
\* that holds matching rows
C14_Witness ==
    /\ q.call.kind = "search"
    /\ q.held > 0
    /\ q.response = "http_status"
    /\ q.stage = "done"

\* ---------------------------------------- properties of the geometry of matches

\* the record has an identifier and names a geometry layer (lines 209-211)
NamesLayer(f) ==
    f.id > 0 /\ f.Geometry # "" /\ GEOMETRY_TYPE_TO_LAYER(f.Geometry) # "none"

\* the geometry layers named by the records that have an identifier
NamedLayers(features) ==
    {GEOMETRY_TYPE_TO_LAYER(features[k].Geometry) :
        k \in {j \in 1..Len(features) : NamesLayer(features[j])}}

\* C15: for a list query over K matched project records the number of geometry
\* calls equals the number of distinct geometry layers named by the records
\* that carry an identifier ('Line' and 'Polyline' name the same layer),
\* whatever K is; a layer without identifiers gets no call.
C15_OneCallPerLayer ==
    (q.kind = "projects" /\ q.stage # "features") =>
        /\ Len(q.requests) = Cardinality(NamedLayers(q.features))
        /\ {q.requests[k].target : k \in 1..Len(q.requests)} = NamedLayers(q.features)
        /\ \A k \in 1..Len(q.requests) : q.requests[k].where.values # <<>>

\* C15's case: three records name the three layers, a query with three calls
C15_Witness ==
    /\ q.kind = "projects" /\ q.stage = "done"
    /\ Len(q.features) = 3
    /\ Len(q.requests) = 3

\* every geometry request of the query was answered with a body
AllSucceeded == \A l \in AllLayers : q.layers[l] \in {"idle", "body"}

Unshared(k) ==
    \A j \in 1..Len(q.features) :
        (NamesLayer(q.features[j]) /\ q.features[j].id = q.features[k].id) =>
            /\ NamesLayer(q.features[k])
            /\ GEOMETRY_TYPE_TO_LAYER(q.features[j].Geometry)
                  = GEOMETRY_TYPE_TO_LAYER(q.features[k].Geometry)

C18_ThreeTierFallback ==
    q.stage = "done" =>
        \A k \in 1..Len(q.features) :
            LET f == q.features[k]
                entry == IF f.id \in Ids THEN q.by_id[f.id] ELSE <<>>
            IN  q.result.matches[k].geometry =
                   IF entry # <<>> /\ entry[1].geometry # "null" THEN entry[1].geometry
                   ELSE IF f.rep # "null" THEN f.rep
                   ELSE "null"

\* C19: for every interleaving and every outcome of the per-layer geometry
\* queries the match list of query_lake_county_projects is as long as the
\* kept feature list and its i-th match carries the attributes of the i-th
\* feature: no record is reordered, duplicated or dropped.
C19_OrderAndCompleteness ==
    (q.kind = "projects" /\ q.stage = "done") =>
        /\ Len(q.result.matches) = Len(q.features)
        /\ \A k \in 1..Len(q.features) : q.result.matches[k].attributes = q.features[k]

\* C19's case: three different records over three layers, of which one failed
\* and one answered, so that some record has a secondary geometry and some not
C19_Witness ==
    /\ q.kind = "projects" /\ q.stage = "done"
    /\ Len(q.features) = 3
    /\ q.features[1] # q.features[2] /\ q.features[2] # q.features[3]
    /\ \E l \in GeometryLayers : q.layers[l] = "exception"
    /\ \E l \in GeometryLayers : q.layers[l] = "body"
    /\ \E k \in 1..3 : q.result.matches[k].geometry_geojson = <<>>
    /\ \E k \in 1..3 : q.result.matches[k].geometry_geojson # <<>>

\* --------------------------------------------- properties of the jurisdiction

\* the literals of the LIKE conditions on a column, in order
LikeLiterals(conds, column) ==
    LET sel == SelectSeq(conds, LAMBDA c : c.kind = "UPPER LIKE" /\ c.field = column)
    IN  [i \in 1..Len(sel) |-> sel[i].literal]

\* C20: a request with jurisdiction 'Chicago' (any letter case) produces a
\* jurisdiction condition that is a case-insensitive substring match against
\* 'North Chicago', never against 'Chicago' (stated here for projects, the
\* entity kind whose tool is list_lake_county_projects).
C20_ChicagoMeansNorthChicago ==
    (/\ q.stage \in {"sent", "done", "returned"}
     /\ lower(strip(q.tool.in.jurisdiction)) = <<"c","h","i","c","a","g","o">>
     /\ Len(q.requests) >= 1) =>
        LikeLiterals(q.requests[1].where.conds, "jurisdiction") = << <<"N","o","r","t","h"," ","C","h","i","c","a","g","o">> >>

\* ------------------------------------------------ properties of the round trips

\* the remote calls one request may make if none is made per record: the
\* primary request and one geometry request for each geometry layer
CallsPerRequest == 1 + Cardinality(GeometryLayers)

\* C21: no query operation makes one remote round-trip per matched record:
\* for list projects, list pre-applications, list concerns and the search by
\* name, the number of remote calls of one request stays within a constant
\* (the primary request plus one request per geometry layer) however many
\* records matched, and no two geometry requests carry a single identifier
\* to the same layer.
C21_NoPerRecordRoundTrip ==
    q.stage = "done" =>
        /\ Len(q.requests) <= CallsPerRequest
        /\ \A i, j \in 1..Len(q.requests) :
              (i # j /\ q.requests[i].purpose = "geometry"
                     /\ q.requests[j].purpose = "geometry")
                  => q.requests[i].target # q.requests[j].target

\* ------------------------------------------ properties of the category definitions

\* C22: the 'studies' category selects exactly the records that have
\* is_study = 1 or projectsubtype = 'Study', and the 'projects' category
\* selects no record whose projectsubtype is 'Study' or 'Flood Audit'.
C22_StudiesBySubtypeOrFlag ==
    cat.stage = "done" =>
        /\ (PROJECT_CATEGORY_STUDIES \in cat.selected_by)
              <=> (\/ cat.record.is_study = SqlVal("1")
                   \/ cat.record.projectsubtype = SqlVal("Study"))
        /\ cat.record.projectsubtype \in {SqlVal("Study"), SqlVal("Flood Audit")}
              => PROJECT_CATEGORY_PROJECTS \notin cat.selected_by

\* ------------------------------------------ properties of the cap and the predicate

\* the predicate of the request holds a category condition
HasCategoryCond == \E k \in 1..Len(q.conditions) : q.conditions[k].kind = "category"

\* C23: the effective record cap of query_lake_county_projects is the limit
\* argument for a filtered query without a category condition, the larger of
\* the limit and the category cap (1000) whenever a category condition is part
\* of the predicate, and the unfiltered cap (200) when the unfiltered scan is
\* permitted and no condition exists.
C23_EffectiveCap ==
    q.requests # <<>> =>
        /\ (q.conditions # <<>> /\ ~HasCategoryCond) => q.effective_limit = q.args.limit
        /\ HasCategoryCond
              => /\ q.effective_limit >= MAX_PROJECTS_BY_CATEGORY
                 /\ q.effective_limit = Max(q.args.limit, MAX_PROJECTS_BY_CATEGORY)
        /\ (q.conditions = <<>> /\ q.args.allow_no_filters)
              => q.effective_limit = MAX_PROJECTS_SEMANTIC_SEARCH

\* the conditions of the predicate that test the given column
CondsOn(field) ==
    {k \in 1..Len(q.conditions) :
        q.conditions[k].kind # "category" /\ q.conditions[k].field = field}

\* an optional string that is None, empty or made of blanks only
Blank(s) == s = None \/ \A k \in 1..Len(s) : s[k] = " "

\* the entries of project_types that are not blank
NonBlankEntries(project_types) ==
    {k \in 1..Len(project_types.items) : ~Blank(project_types.items[k])}

\* a string filter gives no condition when blank and one of the given kind when not
OneCondition(field, value, kind) ==
    IF Blank(value) THEN CondsOn(field) = {}
    ELSE /\ Cardinality(CondsOn(field)) = 1
         /\ \A k \in CondsOn(field) : q.conditions[k].kind = kind

\* C24: in query_lake_county_projects each filter argument that is non-blank
\* after trimming contributes exactly one condition (equality for status and
\* ProjectStatus, substring match for jurisdiction, ProjectPartners and
\* Subshed, an IN-set over the non-blank entries for project_types); a filter
\* that is None, empty or all-blank (also a project_types list of blank
\* entries) contributes none; the conditions are combined with AND only.
C24_PredicateConstruction ==
    q.stage # "call" =>
        /\ OneCondition("status", q.args.status, "UPPER =")
        /\ OneCondition("ProjectStatus", q.args.project_status, "UPPER =")
        /\ OneCondition("jurisdiction", q.args.jurisdiction, "UPPER LIKE")
        /\ OneCondition("ProjectPartners", q.args.project_partners, "UPPER LIKE")
        /\ OneCondition("Subshed", q.args.subshed, "UPPER LIKE")
        /\ IF q.args.project_types.is_none \/ NonBlankEntries(q.args.project_types) = {}
           THEN CondsOn("projecttype") = {}
           ELSE /\ Cardinality(CondsOn("projecttype")) = 1
                /\ \A k \in CondsOn("projecttype") :
                      /\ q.conditions[k].kind = "IN"
                      /\ Len(q.conditions[k].values)
                            = Cardinality(NonBlankEntries(q.args.project_types))
        /\ \A k \in 1..Len(q.conditions) :
              \/ q.conditions[k].kind = "category"
              \/ q.conditions[k].field \in {"status", "ProjectStatus", "jurisdiction",
                                            "ProjectPartners", "Subshed", "projecttype"}
        /\ (q.requests # <<>> /\ q.conditions # <<>>)
              => q.requests[1].where = [kind |-> "AND", conds |-> q.conditions]

\* C24's case: a request whose filters are partly blank and partly not, with a
\* list of types that has a blank entry between two others
C24_Witness ==
    /\ q.stage = "sent"
    /\ q.args.status = <<"b", "'">> /\ q.args.project_status = None
    /\ q.args.jurisdiction = <<" ">> /\ q.args.subshed = <<"b">>
    /\ Len(q.args.project_types.items) = 3
    /\ Len(q.conditions) >= 3
    /\ q.requests[1].where.kind = "AND"

\* ------------------------------------------ properties of the resolved geometry

\* C25: a match returned by query_lake_county_projects has a null geometry
\* only if the primary record has no inline geometry and no feature the batch
\* geometry queries returned for its identifier has a geometry; whenever one
\* of these sources holds a geometry, the geometry of the match is not null.
C25_BestEffortGeometry ==
    (q.stage = "done" /\ q.kind = "projects") =>
        \A k \in 1..Len(q.result.matches) :
            LET match == q.result.matches[k]
                id == match.attributes.id
            IN  match.geometry = "null" =>
                    /\ match.attributes.rep = "null"
                    /\ id \in Ids =>
                          \A j \in 1..Len(q.by_id[id]) : q.by_id[id][j].geometry = "null"

RECURSIVE MergedInRequestOrder(_)
\* the map of geometries when the first k requests are answered in the order
\* they were issued, each with the outcome it had
MergedInRequestOrder(k) ==
    IF k = 0 THEN [id \in Ids |-> <<>>]
    ELSE IF EntityFailed(q.layers[q.requests[k].target]) THEN MergedInRequestOrder(k - 1)
    ELSE MergeFeatures(MergedInRequestOrder(k - 1),
                       LayerAnswer(q.requests[k].target, RequestedIds(q.requests[k])))

\* C26: the geometry resolved for each matched record does not depend on the
\* order in which the concurrent per-layer batch queries complete: for the
\* same primary result, layer contents and outcomes, every interleaving gives
\* every record the geometry and the feature order in geometry_geojson that
\* answering the requests in the order of their issue gives, also when one
\* project_id is sent to more than one layer.
C26_CompletionOrderIndependent ==
    (q.stage = "done" /\ q.kind = "projects") =>
        \A k \in 1..Len(q.result.matches) :
            LET expected == BatchEntry(MergedInRequestOrder(Len(q.requests)), q.features[k].id)
            IN  /\ q.result.matches[k].geometry_geojson = expected
                /\ q.result.matches[k].geometry = MatchGeometry(expected, q.features[k].rep)

\* ------------------------------------ properties of the overlapping refresh rounds

\* C27: the installed vocabulary snapshot never goes back in time: when two
\* refresh rounds overlap, the round whose remote fetch started earlier never
\* installs its snapshot over the snapshot of a round that started later, so
\* the timestamp is never attached to data older than the data it replaces.
C27_NeverBackInTime ==
    [][\A c \in Callers :
          Installs(c) => \A f \in Fields : round[c] >= cacheRound[f]]_vars

\* the fields whose vocabulary the tools resolve terms against
ResolvedFields == {"status", "ProjectStatus"}

ToolCalled == q.stage \in {"call", "sent", "done", "returned"} /\ q.args # Unset

\* the agent gave the list tool no filter that survives trimming
NoFilterGiven(in) ==
    /\ Blank(in.status) /\ Blank(in.project_status)
    /\ Blank(in.jurisdiction) /\ Blank(in.project_partners) /\ Blank(in.subshed)
    /\ in.project_types.is_none \/ NonBlankEntries(in.project_types) = {}

\* the agent gave the list tool one of the category names it recognises
CategoryGiven(in) ==
    /\ ~Blank(in.project_category)
    /\ lower(strip(in.project_category)) \in
          {<<"p","r","o","j","e","c","t","s">>, <<"p","r","o","j","e","c","t">>,
           <<"s","t","u","d","i","e","s">>, <<"s","t","u","d","y">>,
           <<"f","l","o","o","d","_","a","u","d","i","t","s">>,
           <<"f","l","o","o","d","_","a","u","d","i","t">>,
           <<"f","l","o","o","d"," ","a","u","d","i","t">>}

\* C29: neither tool ever sends an unscoped query to the primary project
\* layer: list_lake_county_projects calls query_lake_county_projects with
\* allow_no_filters = false and, when no filter and no recognised category is
\* given, with the category 'projects'; search_lake_county_project_descriptions
\* always passes the category 'projects'; no request of either tool carries
\* the where-clause 1=1 and the unfiltered cap of 200 is never the effective
\* limit.
C29_ToolsNeverUnscoped ==
    /\ (ToolCalled /\ q.tool.name = "list_lake_county_projects") =>
           /\ ~q.args.allow_no_filters
           /\ (NoFilterGiven(q.tool.in) /\ ~CategoryGiven(q.tool.in))
                 => q.args.project_category = <<"p","r","o","j","e","c","t","s">>
    /\ (ToolCalled /\ q.tool.name = "search_lake_county_project_descriptions") =>
           q.args.project_category = <<"p","r","o","j","e","c","t","s">>
    /\ \A k \in 1..Len(q.requests) :
           /\ q.requests[k].where.kind = "AND"
           /\ q.requests[k].where.conds # <<>>
           /\ q.requests[k].resultRecordCount # MAX_PROJECTS_SEMANTIC_SEARCH + 1
    /\ q.effective_limit # MAX_PROJECTS_SEMANTIC_SEARCH

\* C29's case: the list tool was called with blank filters and a category it
\* does not recognise, and its request went out scoped to 'projects'
C29_Witness ==
    /\ q.tool.name = "list_lake_county_projects"
    /\ q.stage = "sent"
    /\ NoFilterGiven(q.tool.in)
    /\ q.tool.in.project_category = <<"x">>
    /\ Len(q.conditions) = 1 /\ q.conditions[1].kind = "category"
    /\ q.requests[1].where.conds = q.conditions

\* C29's other case: the search tool was called without any filter and its
\* request went out with the category condition alone
C29_SearchWitness ==
    /\ q.tool.name = "search_lake_county_project_descriptions"
    /\ q.stage = "sent"
    /\ q.args.allow_no_filters
    /\ Len(q.conditions) = 1 /\ q.conditions[1].kind = "category"
    /\ q.effective_limit = MAX_PROJECTS_BY_CATEGORY

\* ------------------------------------------------ properties of the truncation note

\* C30: when list_lake_county_projects reports truncation, the limit named in
\* its note ('Results are limited to N', N = 200 without filters and 50 with
\* filters) is the cap query_lake_county_projects applied: N equals the
\* number of matches returned whenever limit_exceeded is true.
C30_NoteNamesAppliedCap ==
    (q.stage = "returned" /\ q.tool.out.limit_exceeded) =>
        /\ q.tool.out.note = "Results are limited to"
        /\ q.tool.out.max_shown = (IF q.tool.has_filters THEN 50 ELSE 200)
        /\ q.tool.out.max_shown = q.effective_limit
        /\ q.tool.out.max_shown = q.tool.out.total_returned

====
